---- MODULE Spec2Model ----
(***************************************************************************)
(* Model of the okta_user resource of terraform-provider-okta              *)
(* (src/okta/resource_okta_user.go): the create, read, update and delete   *)
(* handlers as step machines over the remote calls they issue.             *)
(***************************************************************************)
EXTENDS Integers, Sequences, FiniteSets, TLC

\* ---------------------------------------------------------------- bounds
\* groups in the universe
MaxGroups == 1
\* attributes (other than status) that change in one update
MaxChanged == 2
\* result pages of one application listing
MaxPages == 2
\* applications on one result page
MaxPageLen == 2

\* ------------------------------------------------------ program constants
statusActive == "ACTIVE"
userStatusStaged == "STAGED"
userStatusSuspended == "SUSPENDED"
userStatusDeprovisioned == "DEPROVISIONED"
userStatusProvisioned == "PROVISIONED"
userStatusPasswordExpired == "PASSWORD_EXPIRED"
userStatusRecovery == "RECOVERY"

\* two of the admin role types the schema accepts for admin_roles
RoleTypes == {"SUPER_ADMIN", "APP_ADMIN"}
GroupNames == <<"g1", "g2", "g3">>
GroupIds == {GroupNames[i] : i \in 1..MaxGroups}

\* the identifier of a resource that is not (or no longer) recorded
NoId == ""
\* the identifier the remote system assigns on creation
RemoteUserId == "00u1"

\* values of the schema's "status" attribute (ValidateDiagFunc)
ConfigStatuses ==
  {statusActive, userStatusStaged, userStatusDeprovisioned, userStatusSuspended}

\* the keys of the schema the handlers ask d.HasChange about; "first_name"
\* stands for the plain profile attributes city .. zip_code
plainProfileKey == "first_name"
profileKeys ==
  <<plainProfileKey, "password", "recovery_question", "recovery_answer">>
ChangeKeys ==
  {plainProfileKey, "password", "recovery_question", "recovery_answer",
   "password_hash", "password_inline_hook", "admin_roles", "group_memberships"}

\* attribute values
oldPasswordValue == "pw0"
newPasswordValue == "pw1"
suppliedOldPassword == "pwX"
hashValue == "h1"
hookDefault == "default"
questionValue == "q1"
answerValue == "a1"

\* the errors resourceUserUpdate raises itself
StagedError == "Okta will not allow a user to be updated to STAGED"
ProvisionedError == "can not change password for provisioned user"
DeprovisionedError == "Only the status of a DEPROVISIONED user can be updated"

VARIABLES
  pc,      \* position of the running handler, "idle" between operations
  op,      \* the handler the framework invoked last
  id,      \* d.Id(): the recorded identifier
  st,      \* recorded attributes the handlers write: status
  d,       \* the configuration and change flags the handler reads from d
  remote,  \* the remote entity
  calls,   \* remote calls issued by the running (or last) operation, in order
  diags,   \* what the operation returned: "none", "running", "ok" or an error
  loc      \* locals of the running handler

vars == <<pc, op, id, st, d, remote, calls, diags, loc>>

\* ------------------------------------------------------------- helpers
RECURSIVE SetToSeq(_)
\* the elements of a set in the order the helpers iterate over them
SetToSeq(S) ==
  IF S = {} THEN <<>>
  ELSE LET x == CHOOSE y \in S : TRUE IN <<x>> \o SetToSeq(S \ {x})

\* one remote call: the client method, the handler function that issued it,
\* two arguments and the outcome ("ok", "err" or "404")
Call(fn, by, a1, a2, res) ==
  [fn |-> fn, by |-> by, a1 |-> a1, a2 |-> a2, res |-> res]

\* a mapStatus that returns every status as it is
mapStatusUnchanged(currentStatus) == currentStatus

\* lines 721-727: PASSWORD_EXPIRED and RECOVERY are recorded as ACTIVE
mapStatus(currentStatus) ==
  IF currentStatus = userStatusPasswordExpired \/ currentStatus = userStatusRecovery
  THEN statusActive
  ELSE currentStatus

\* suppressErrorOn404(resp, err): a 404 response is no error
suppressErrorOn404(res) == IF res = "404" THEN "ok" ELSE res

\* DiffSuppressFunc of the "status" attribute
statusDiffSuppress(old, new) ==
  \/ old = userStatusProvisioned /\ new = statusActive
  \/ old = userStatusPasswordExpired /\ new = statusActive

\* d.HasChange("status")
HasChangeStatus(old, new) == old # new /\ ~statusDiffSuppress(old, new)

\* d.HasChange(k) for the other keys
HasChange(dd, k) == k \in dd.changed

hasProfileChange(dd) ==
  \E i \in 1..Len(profileKeys) : HasChange(dd, profileKeys[i])

\* ConflictsWith / RequiredWith of the schema
ValidConfig(password, hash, pih, expire) ==
  /\ pih # "" => (password = "" /\ hash = "")
  /\ expire => password # ""

\* the credentials a CreateUser request carries
CreateCredentials(password, hash, pih) ==
  IF pih # "" THEN "hook"
  ELSE IF password # "" /\ hash # "" THEN "password+hash"
  ELSE IF password # "" THEN "password"
  ELSE IF hash # "" THEN "hash"
  ELSE "none"

\* identifier of the remote role assignment of a role type
RoleId(type) == "role:" \o type

\* listUserOnlyRoles: the remote role entries
RoleList(rem) == SetToSeq(rem.roles)

\* a helper that issues one call per item and stops at the first error:
\* fail = 0 when no call fails, otherwise the index of the failing call
HelperIssued(items, fail) == IF fail = 0 THEN Len(items) ELSE fail
HelperCalls(fn, by, items, fail) ==
  [k \in 1..HelperIssued(items, fail) |->
     Call(fn, by, items[k], "", IF k = fail THEN "err" ELSE "ok")]
HelperApplied(items, fail) ==
  {items[k] : k \in 1..(IF fail = 0 THEN Len(items) ELSE fail - 1)}

\* which call of a helper may fail: none or any one, the first when the
\* entity is gone, and none when there is nothing to issue
HelperFails(items, rem) ==
  IF Len(items) = 0 THEN {0}
  ELSE IF rem.exists THEN 0..Len(items)
  ELSE {1}

\* outcomes of a remote call on the entity
Outcomes(rem) == IF rem.exists THEN {"ok", "err"} ELSE {"err"}

NoRemote == [exists |-> FALSE, status |-> "", roles |-> {}, groups |-> {}]
NoState == [status |-> ""]
\* groups_read: whether group_memberships was read from d and found set
NoD == [status |-> "", changed |-> {}, password |-> "", password_hash |-> "",
        pih |-> "?", old_password |-> "?", expire |-> FALSE,
        admin_roles |-> {}, group_memberships |-> {}, groups_read |-> "?"]
NoLoc == [roles |-> <<>>, i |-> 0, oldRoles |-> {}, rolesToAdd |-> {},
          rolesToRemove |-> {}, oldGroups |-> {}, groupsToAdd |-> {},
          groupsToRemove |-> {}, passes |-> 0, statusChange |-> FALSE]

Init ==
  /\ pc = "idle"
  /\ op = "none"
  /\ id = NoId
  /\ st = NoState
  /\ d = NoD
  /\ remote = NoRemote
  /\ calls = <<>>
  /\ diags = "none"
  /\ loc = NoLoc

\* the framework invokes a handler only between operations
CanBegin == pc = "idle"

\* return from the running handler: its diagnostics are handed to the framework
Return(result) == /\ pc' = "returned" /\ diags' = result

\* if err != nil { return diag.Errorf(msg) }, else on to the next step
AfterCallUnchecked(res, next, msg) == pc' = next /\ UNCHANGED diags
AfterCall(res, next, msg) ==
  IF res = "ok" THEN pc' = next /\ UNCHANGED diags ELSE Return(msg)

\* the steps of resourceUserUpdate in the order of the code, then the read
UpdateOrderProfileFirst ==
  <<"u_password_check", "u_profile", "u_status", "u_deprovisioned_check",
    "u_roles", "u_groups", "u_password", "u_recovery", "r_GetUser">>
UpdateOrder ==
  <<"u_password_check", "u_status", "u_deprovisioned_check", "u_profile",
    "u_roles", "u_groups", "u_password", "u_recovery", "r_GetUser">>

\* the step that follows step p of the update
After(p) ==
  LET i == CHOOSE k \in 1..Len(UpdateOrder) : UpdateOrder[k] = p
  IN UpdateOrder[i + 1]

\* ------------------------------------------------------ resourceUserCreate
\* lines 377-413: read the configuration, build profile, query and credentials
CreateBegin ==
  /\ CanBegin
  /\ id = NoId
  /\ \E status \in ConfigStatuses, password \in {"", newPasswordValue},
        hash \in {"", hashValue}, pih \in {"", hookDefault}, expire \in BOOLEAN :
       /\ ValidConfig(password, hash, pih, expire)
       /\ d' = [NoD EXCEPT !.status = status, !.password = password,
                           !.password_hash = hash, !.pih = pih, !.expire = expire]
       /\ st' = [st EXCEPT !.status = status]
  /\ op' = "create"
  /\ pc' = "c_CreateUser"
  /\ calls' = <<>>
  /\ diags' = "running"
  /\ loc' = NoLoc
  /\ UNCHANGED <<id, remote>>

\* query.WithActivate(false) only for STAGED (lines 382-385)
CreateActivateAlways(status) == "activate"
CreateActivate(status) ==
  IF status = userStatusStaged THEN "activate=false" ELSE "activate"

\* d.SetId(user.Id) right after CreateUser (line 420)
SetIdSkipped(userId) == UNCHANGED id
SetId(userId) == id' = userId

\* lines 414-420: CreateUser, then d.SetId(user.Id)
CreateUser ==
  /\ pc = "c_CreateUser"
  /\ \E res \in {"ok", "err"} :
       /\ calls' = Append(calls,
            Call("CreateUser", "create", CreateActivate(d.status),
                 CreateCredentials(d.password, d.password_hash, d.pih), res))
       /\ IF res = "ok"
          THEN /\ \E s \in (IF d.status = userStatusStaged
                            THEN {userStatusStaged}
                            ELSE {statusActive, userStatusProvisioned}) :
                    remote' = [NoRemote EXCEPT !.exists = TRUE, !.status = s]
               /\ SetId(RemoteUserId)
          ELSE UNCHANGED <<id, remote>>
       /\ AfterCall(res, "c_roles", "failed to create user")
  /\ UNCHANGED <<op, st, d, loc>>

\* lines 422-432: admin_roles, when set, are assigned one call per role
CreateRoles ==
  /\ pc = "c_roles"
  /\ \E roles \in SUBSET RoleTypes :
       /\ d' = [d EXCEPT !.admin_roles = roles]
       /\ \E fail \in HelperFails(SetToSeq(roles), remote) :
            /\ calls' = calls \o HelperCalls("AssignRoleToUser", "create",
                                             SetToSeq(roles), fail)
            /\ remote' = [remote EXCEPT !.roles =
                            @ \cup HelperApplied(SetToSeq(roles), fail)]
            /\ AfterCall(IF fail = 0 THEN "ok" ELSE "err", "c_groups",
                         "failed to assign role")
  /\ UNCHANGED <<op, id, st, loc>>

\* lines 434-441: group_memberships, when set, are added one call per group
CreateGroups ==
  /\ pc = "c_groups"
  /\ \E groups \in SUBSET GroupIds :
       /\ d' = [d EXCEPT !.group_memberships = groups,
                         !.groups_read = IF groups # {} THEN "set" ELSE "unset"]
       /\ \E fail \in HelperFails(SetToSeq(groups), remote) :
            /\ calls' = calls \o HelperCalls("AddUserToGroup", "create",
                                             SetToSeq(groups), fail)
            /\ remote' = [remote EXCEPT !.groups =
                            @ \cup HelperApplied(SetToSeq(groups), fail)]
            /\ AfterCall(IF fail = 0 THEN "ok" ELSE "err", "c_status",
                         "failed to add user to group")
  /\ UNCHANGED <<op, id, st, loc>>

\* a status follow-up made for SUSPENDED only
CreateNeedsStatusSuspended(status) == status = userStatusSuspended

\* the status follow-up of create is made for these statuses (line 444)
CreateNeedsStatus(status) ==
  status = userStatusSuspended \/ status = userStatusDeprovisioned

\* lines 443-449: updateUserStatus for SUSPENDED and DEPROVISIONED
CreateStatus ==
  /\ pc = "c_status"
  /\ IF CreateNeedsStatus(d.status)
     THEN \E res \in Outcomes(remote) :
            /\ calls' = Append(calls, Call("UpdateStatus", "create", d.status, "", res))
            /\ remote' = IF res = "ok" THEN [remote EXCEPT !.status = d.status]
                         ELSE remote
            /\ AfterCall(res, "c_expire", "failed to update user status")
     ELSE /\ pc' = "c_expire"
          /\ UNCHANGED <<calls, remote, diags>>
  /\ UNCHANGED <<op, id, st, d, loc>>

\* lines 451-459: ExpirePassword when expire_password_on_create, then read
CreateExpire ==
  /\ pc = "c_expire"
  /\ IF d.expire
     THEN \E res \in Outcomes(remote) :
            /\ calls' = Append(calls, Call("ExpirePassword", "create", id, "", res))
            /\ remote' = IF res = "ok"
                         THEN [remote EXCEPT !.status = userStatusPasswordExpired]
                         ELSE remote
            /\ AfterCall(res, "r_GetUser", "failed to expire user's password")
     ELSE /\ pc' = "r_GetUser"
          /\ UNCHANGED <<calls, remote, diags>>
  /\ UNCHANGED <<op, id, st, d, loc>>

\* -------------------------------------------------------- resourceUserRead
\* the framework refreshes a recorded resource
ReadBegin ==
  /\ CanBegin
  /\ id # NoId
  /\ op' = "read"
  /\ pc' = "r_GetUser"
  /\ d' = [NoD EXCEPT !.status = st.status]
  /\ calls' = <<>>
  /\ diags' = "running"
  /\ loc' = NoLoc
  /\ UNCHANGED <<id, st, remote>>

\* outcomes of GetUser: a user that is gone answers 404
GetUserOutcomes(rem) == IF rem.exists THEN {"ok", "404", "err"} ELSE {"404", "err"}

\* a test that takes every answer for a user
userIsNilNever(res) == FALSE

\* line 469: user == nil, the answer to a user that is not found
userIsNil(res) == res = "404"

\* lines 462-478: GetUser; a 404 clears the identifier, otherwise the status
\* is recorded
ReadGetUser ==
  /\ pc = "r_GetUser"
  /\ \E res \in GetUserOutcomes(remote) :
       /\ calls' = Append(calls,
            Call("GetUser", "read", id, IF res = "ok" THEN remote.status ELSE "", res))
       /\ IF suppressErrorOn404(res) # "ok"
          THEN /\ Return("failed to get user")
               /\ UNCHANGED <<id, st, remote>>
          ELSE IF userIsNil(res)
          THEN /\ id' = NoId
               /\ remote' = NoRemote
               /\ Return("ok")
               /\ UNCHANGED st
          ELSE /\ st' = [st EXCEPT !.status = mapStatus(remote.status)]
               /\ pc' = "r_roles"
               /\ UNCHANGED <<id, remote, diags>>
  /\ UNCHANGED <<op, d, loc>>

\* lines 479-486: setAdminRoles unless skip_roles
ReadRoles ==
  /\ pc = "r_roles"
  /\ \E skip \in BOOLEAN :
       IF ~skip
       THEN \E res \in Outcomes(remote) :
              /\ calls' = Append(calls,
                   Call("ListAssignedRolesForUser", "read", id, "", res))
              /\ loc' = IF res = "ok" THEN [loc EXCEPT !.roles = RoleList(remote)]
                        ELSE loc
              /\ AfterCall(res, "r_groups", "failed to set user's admin roles")
       ELSE /\ pc' = "r_groups"
            /\ UNCHANGED <<calls, loc, diags>>
  /\ UNCHANGED <<op, id, st, d, remote>>

\* d.GetOk("group_memberships"): as the handler read it before, else either
GroupsExist(dd) ==
  IF dd.groups_read = "?" THEN BOOLEAN ELSE {dd.groups_read = "set"}

\* lines 488-495: setGroupUserMemberships when group_memberships is set
ReadGroups ==
  /\ pc = "r_groups"
  /\ \E exists \in GroupsExist(d) :
       IF exists
       THEN \E res \in Outcomes(remote) :
              /\ calls' = Append(calls, Call("ListUserGroups", "read", id, "", res))
              /\ IF res = "ok"
                 THEN Return("ok")
                 ELSE Return("failed to set user's groups")
       ELSE /\ Return("ok")
            /\ UNCHANGED calls
  /\ UNCHANGED <<op, id, st, d, remote, loc>>

\* ------------------------------------------------------ resourceUserUpdate
\* the sets of attributes d.HasChange reports as changed
ChangeSets == {S \in SUBSET ChangeKeys : Cardinality(S) <= MaxChanged}

\* line 503: a change of status to STAGED is rejected
RejectStagedNever(status, statusChange) == FALSE
RejectStaged(status, statusChange) == status = userStatusStaged /\ statusChange

\* lines 498-516: status, the STAGED rejection and the change flags
UpdateBegin ==
  /\ CanBegin
  /\ id # NoId
  /\ \E status \in ConfigStatuses, changed \in ChangeSets :
       LET statusChange == HasChangeStatus(st.status, status)
       IN /\ d' = [NoD EXCEPT !.status = status, !.changed = changed,
                     !.password = IF "password" \in changed
                                  THEN newPasswordValue ELSE oldPasswordValue]
          /\ loc' = [NoLoc EXCEPT !.statusChange = statusChange]
          /\ IF RejectStaged(status, statusChange)
             THEN Return(StagedError)
             ELSE pc' = UpdateOrder[1] /\ diags' = "running"
  /\ op' = "update"
  /\ calls' = <<>>
  /\ UNCHANGED <<id, st, remote>>

\* line 523: the user is in the PROVISIONED state
IsProvisionedNever(status) == FALSE
IsProvisioned(status) == status = userStatusProvisioned

\* lines 517-527: with a changed password, GetUser and reject PROVISIONED
UpdateCheckProvisioned ==
  /\ pc = "u_password_check"
  /\ IF HasChange(d, "password")
     THEN \E res \in Outcomes(remote) :
            /\ calls' = Append(calls,
                 Call("GetUser", "update", id,
                      IF res = "ok" THEN remote.status ELSE "", res))
            /\ IF res = "ok" /\ IsProvisioned(remote.status)
               THEN Return(ProvisionedError)
               ELSE AfterCall(res, After("u_password_check"), "failed to get user")
     ELSE /\ pc' = After("u_password_check")
          /\ UNCHANGED <<calls, diags>>
  /\ UNCHANGED <<op, id, st, d, remote, loc>>

\* lines 529-537: updateUserStatus first, then d.Set("status", status)
UpdateStatus ==
  /\ pc = "u_status"
  /\ IF loc.statusChange
     THEN \E res \in Outcomes(remote) :
            /\ calls' = Append(calls, Call("UpdateStatus", "update", d.status, "", res))
            /\ remote' = IF res = "ok" THEN [remote EXCEPT !.status = d.status]
                         ELSE remote
            /\ st' = IF res = "ok" THEN [st EXCEPT !.status = d.status] ELSE st
            /\ AfterCall(res, After("u_status"), "failed to update user status")
     ELSE /\ pc' = After("u_status")
          /\ UNCHANGED <<calls, remote, st, diags>>
  /\ UNCHANGED <<op, id, d, loc>>

\* line 539: a DEPROVISIONED user takes no profile change
RejectDeprovisionedNever(status, userChange) == FALSE
RejectDeprovisioned(status, userChange) ==
  status = userStatusDeprovisioned /\ userChange

\* lines 539-541
UpdateCheckDeprovisioned ==
  /\ pc = "u_deprovisioned_check"
  /\ IF RejectDeprovisioned(d.status, hasProfileChange(d))
     THEN Return(DeprovisionedError)
     ELSE pc' = After("u_deprovisioned_check") /\ UNCHANGED diags
  /\ UNCHANGED <<op, id, st, d, remote, calls, loc>>

\* the profile update is due (line 543)
NeedsProfileUpdate(dd) ==
  hasProfileChange(dd) \/ HasChange(dd, "password_hash")
    \/ HasChange(dd, "password_inline_hook")

\* a payload in which the hook is added to the hash
ProfileCredentialsMerged(hashChange, hookChange, pih) ==
  IF hookChange /\ pih # "" THEN (IF hashChange THEN "hash+hook" ELSE "hook")
  ELSE IF hashChange THEN "hash"
  ELSE "none"

\* the credential payload of the profile update (lines 548-564): the hook,
\* when it changed to a value, replaces the hash
ProfileCredentials(hashChange, hookChange, pih) ==
  IF hookChange /\ pih # "" THEN "hook"
  ELSE IF hashChange THEN "hash"
  ELSE "none"

\* d.Get("password_inline_hook") (line 555): its value bears on the request
\* only when the hook changed
HookValues(hookChange) == IF hookChange THEN {"", hookDefault} ELSE {"?"}

\* lines 543-569: UpdateUser with the full profile and the changed credential
UpdateProfile ==
  /\ pc = "u_profile"
  /\ IF NeedsProfileUpdate(d)
     THEN \E pih \in HookValues(HasChange(d, "password_inline_hook")),
             res \in Outcomes(remote) :
            /\ d' = [d EXCEPT !.pih = pih]
            /\ calls' = Append(calls,
                 Call("UpdateUser", "update", "profile",
                      ProfileCredentials(HasChange(d, "password_hash"),
                                         HasChange(d, "password_inline_hook"), pih),
                      res))
            /\ AfterCall(res, After("u_profile"), "failed to update user")
     ELSE /\ pc' = After("u_profile")
          /\ UNCHANGED <<d, calls, diags>>
  /\ UNCHANGED <<op, id, st, remote, loc>>

\* schema.Set.Difference: the elements of a that are not in b
DifferenceSwapped(a, b) == b \ a
Difference(a, b) == a \ b

\* lines 571-580: the role deltas, then the current remote role list
UpdateListRoles ==
  /\ pc = "u_roles"
  /\ IF HasChange(d, "admin_roles")
     THEN \E oldSet \in SUBSET RoleTypes, newSet \in SUBSET RoleTypes,
             res \in Outcomes(remote) :
               /\ oldSet # newSet
               /\ d' = [d EXCEPT !.admin_roles = newSet]
               /\ calls' = Append(calls,
                    Call("ListAssignedRolesForUser", "update", id, "", res))
               /\ loc' = [loc EXCEPT !.oldRoles = oldSet,
                                     !.rolesToAdd = Difference(newSet, oldSet),
                                     !.rolesToRemove = Difference(oldSet, newSet),
                                     !.roles = IF res = "ok" THEN RoleList(remote)
                                               ELSE <<>>,
                                     !.i = 1]
               /\ AfterCall(res, "u_role_remove", "failed to list user's roles")
     ELSE /\ pc' = After("u_roles")
          /\ UNCHANGED <<d, calls, loc, diags>>
  /\ UNCHANGED <<op, id, st, remote>>

\* line 582: contains(rolesToRemove, role.Type)
contains(list, item) == item \in list

\* lines 581-588: one iteration over the remote role list; a 404 on the
\* removal is suppressed
UpdateRemoveRole ==
  /\ pc = "u_role_remove"
  /\ loc.i <= Len(loc.roles)
  /\ LET role == loc.roles[loc.i]
     IN IF contains(loc.rolesToRemove, role)
        THEN \E res \in {"ok", "404", "err"} :
               /\ calls' = Append(calls,
                    Call("RemoveRoleFromUser", "update", RoleId(role), "", res))
               /\ remote' = IF suppressErrorOn404(res) = "ok"
                            THEN [remote EXCEPT !.roles = @ \ {role}]
                            ELSE remote
               /\ loc' = IF suppressErrorOn404(res) = "ok"
                         THEN [loc EXCEPT !.i = @ + 1]
                         ELSE loc
               /\ AfterCall(suppressErrorOn404(res), "u_role_remove",
                            "failed to remove user's role")
        ELSE /\ loc' = [loc EXCEPT !.i = @ + 1]
             /\ UNCHANGED <<pc, calls, remote, diags>>
  /\ UNCHANGED <<op, id, st, d>>

\* lines 589-593: assignAdminRolesToUser with the roles to add; the locals of
\* the role block go out of scope
UpdateAddRoles ==
  /\ pc = "u_role_remove"
  /\ loc.i > Len(loc.roles)
  /\ \E fail \in HelperFails(SetToSeq(loc.rolesToAdd), remote) :
       /\ calls' = calls \o HelperCalls("AssignRoleToUser", "update",
                                        SetToSeq(loc.rolesToAdd), fail)
       /\ remote' = [remote EXCEPT !.roles =
                       @ \cup HelperApplied(SetToSeq(loc.rolesToAdd), fail)]
       /\ AfterCall(IF fail = 0 THEN "ok" ELSE "err", After("u_roles"),
                    "failed to assign role")
  /\ loc' = [loc EXCEPT !.roles = <<>>, !.i = 0, !.oldRoles = {},
                        !.rolesToAdd = {}, !.rolesToRemove = {}]
  /\ UNCHANGED <<op, id, st, d>>

\* lines 595-604: the group deltas, then addUserToGroups
UpdateAddGroups ==
  /\ pc = "u_groups"
  /\ IF HasChange(d, "group_memberships")
     THEN \E oldSet \in SUBSET GroupIds, newSet \in SUBSET GroupIds :
            LET groupsToAdd == SetToSeq(Difference(newSet, oldSet))
            IN /\ oldSet # newSet
               /\ d' = [d EXCEPT !.group_memberships = newSet,
                                 !.groups_read = IF newSet # {} THEN "set" ELSE "unset"]
               /\ loc' = [loc EXCEPT !.oldGroups = oldSet,
                                     !.groupsToAdd = Difference(newSet, oldSet),
                                     !.groupsToRemove = Difference(oldSet, newSet)]
               /\ \E fail \in HelperFails(groupsToAdd, remote) :
                    /\ calls' = calls \o HelperCalls("AddUserToGroup", "update",
                                                     groupsToAdd, fail)
                    /\ remote' = [remote EXCEPT !.groups =
                                    @ \cup HelperApplied(groupsToAdd, fail)]
                    /\ AfterCall(IF fail = 0 THEN "ok" ELSE "err", "u_groups_remove",
                                 "failed to add user to groups")
     ELSE /\ pc' = After("u_groups")
          /\ UNCHANGED <<d, loc, calls, remote, diags>>
  /\ UNCHANGED <<op, id, st>>

\* lines 605-609: removeUserFromGroups; the locals of the group block go out
\* of scope
UpdateRemoveGroups ==
  /\ pc = "u_groups_remove"
  /\ LET groupsToRemove == SetToSeq(loc.groupsToRemove)
     IN \E fail \in HelperFails(groupsToRemove, remote) :
          /\ calls' = calls \o HelperCalls("RemoveUserFromGroup", "update",
                                           groupsToRemove, fail)
          /\ remote' = [remote EXCEPT !.groups =
                          @ \ HelperApplied(groupsToRemove, fail)]
          /\ AfterCall(IF fail = 0 THEN "ok" ELSE "err", After("u_groups"),
                       "failed to remove user from groups")
  /\ loc' = [loc EXCEPT !.oldGroups = {}, !.groupsToAdd = {},
                        !.groupsToRemove = {}]
  /\ UNCHANGED <<op, id, st, d>>

\* the password call of lines 611-647: ChangePassword with old_password as the
\* old value when old_password is set, UpdateUser with the bare credential
\* otherwise
PasswordCallPriorValue(oldPasswordExist, old, oldPassword, newPassword, res) ==
  IF oldPasswordExist
  THEN Call("ChangePassword", "update", oldPassword, newPassword, res)
  ELSE Call("UpdateUser", "update", "credentials", newPassword, res)
PasswordCall(oldPasswordExist, old, oldPassword, newPassword, res) ==
  IF oldPasswordExist
  THEN Call("ChangePassword", "update", old, newPassword, res)
  ELSE Call("UpdateUser", "update", "credentials", newPassword, res)

\* lines 611-647
UpdatePassword ==
  /\ pc = "u_password"
  /\ IF HasChange(d, "password")
     THEN \E old \in {"", suppliedOldPassword}, res \in Outcomes(remote) :
            /\ d' = [d EXCEPT !.old_password = old]
            /\ calls' = Append(calls,
                 PasswordCall(old # "", old, oldPasswordValue, d.password, res))
            /\ AfterCall(res, After("u_password"),
                         IF old # "" THEN "failed to update user's password"
                         ELSE "failed to set user's password")
     ELSE /\ pc' = After("u_password")
          /\ UNCHANGED <<d, calls, diags>>
  /\ UNCHANGED <<op, id, st, remote, loc>>

\* a payload of the changed one of question and answer only
RecoveryQuestionChangedOnly(dd) ==
  IF HasChange(dd, "recovery_question") /\ HasChange(dd, "recovery_answer")
  THEN questionValue \o "/" \o answerValue
  ELSE IF HasChange(dd, "recovery_question") THEN questionValue
  ELSE answerValue

\* lines 654-657: the question and the answer of d, both
RecoveryQuestion(dd) == questionValue \o "/" \o answerValue

\* lines 649-665: ChangeRecoveryQuestion, then read
UpdateRecovery ==
  /\ pc = "u_recovery"
  /\ IF HasChange(d, "recovery_question") \/ HasChange(d, "recovery_answer")
     THEN \E res \in Outcomes(remote) :
            /\ calls' = Append(calls,
                 Call("ChangeRecoveryQuestion", "update",
                      RecoveryQuestion(d), d.password, res))
            /\ AfterCall(res, After("u_recovery"),
                         "failed to change user's password recovery question")
     ELSE /\ pc' = After("u_recovery")
          /\ UNCHANGED <<calls, diags>>
  /\ UNCHANGED <<op, id, st, d, remote, loc>>

\* ------------------------------------------------------ resourceUserDelete
\* ensureUserDelete lines 708-711: one pass for a DEPROVISIONED user, else two
PassesAlwaysTwo(status) == 2
Passes(status) == IF status = userStatusDeprovisioned THEN 1 ELSE 2

\* lines 667-669 and 705-711
DeleteBegin ==
  /\ CanBegin
  /\ id # NoId
  /\ op' = "delete"
  /\ pc' = "x_pass"
  /\ d' = [NoD EXCEPT !.status = st.status]
  /\ loc' = [NoLoc EXCEPT !.passes = Passes(st.status), !.i = 0]
  /\ calls' = <<>>
  /\ diags' = "running"
  /\ UNCHANGED <<id, st, remote>>

\* lines 712-718: one pass of the loop
DeletePass ==
  /\ pc = "x_pass"
  /\ loc.i < loc.passes
  /\ \E res \in Outcomes(remote) :
       /\ calls' = Append(calls, Call("DeactivateOrDeleteUser", "delete", id, "", res))
       /\ remote' = IF res # "ok" THEN remote
                    ELSE IF remote.status = userStatusDeprovisioned THEN NoRemote
                    ELSE [remote EXCEPT !.status = userStatusDeprovisioned]
       /\ loc' = IF res = "ok" THEN [loc EXCEPT !.i = @ + 1] ELSE loc
       /\ IF res = "ok" /\ loc.i + 1 >= loc.passes
          THEN Return("ok")
          ELSE AfterCall(res, "x_pass",
                         "failed to deprovision or delete user from Okta")
  /\ UNCHANGED <<op, id, st, d>>

\* ------------------------------------------------------------ the system
\* the framework takes the result of the handler; the handler's d, its locals
\* and its calls are gone, and a destroyed resource takes no further operation
Finish ==
  /\ pc = "returned"
  /\ pc' = IF op = "delete" /\ diags = "ok" THEN "removed" ELSE "idle"
  /\ op' = "none"
  /\ d' = NoD
  /\ calls' = <<>>
  /\ diags' = "none"
  /\ loc' = NoLoc
  /\ UNCHANGED <<id, st, remote>>

Next ==
  \/ Finish
  \/ CreateBegin
  \/ CreateUser
  \/ CreateRoles
  \/ CreateGroups
  \/ CreateStatus
  \/ CreateExpire
  \/ ReadBegin
  \/ ReadGetUser
  \/ ReadRoles
  \/ ReadGroups
  \/ UpdateBegin
  \/ UpdateCheckProvisioned
  \/ UpdateStatus
  \/ UpdateCheckDeprovisioned
  \/ UpdateProfile
  \/ UpdateListRoles
  \/ UpdateRemoveRole
  \/ UpdateAddRoles
  \/ UpdateAddGroups
  \/ UpdateRemoveGroups
  \/ UpdatePassword
  \/ UpdateRecovery
  \/ DeleteBegin
  \/ DeletePass

Spec == Init /\ [][Next]_vars

\* ------------------------------------------------------------ the claims
Idx == 1..Len(calls)

\* the calls that only read the remote entity
ReadOnlyCalls == {"GetUser", "ListAssignedRolesForUser", "ListUserGroups"}
Mutating(c) == c.fn \notin ReadOnlyCalls

\* the number of calls of the log that satisfy P
CountCalls(P(_)) == Cardinality({i \in Idx : P(calls[i])})

\* the step of the ordering contract the methods other than UpdateUser
\* belong to
StepOfCall ==
  [GetUser |-> 1, UpdateStatus |-> 2,
   ListAssignedRolesForUser |-> 4, RemoveRoleFromUser |-> 4,
   AssignRoleToUser |-> 5,
   AddUserToGroup |-> 6, RemoveUserFromGroup |-> 6,
   ChangePassword |-> 7, ChangeRecoveryQuestion |-> 8]

\* the step of the ordering contract a call of an update belongs to:
\* UpdateUser is the profile update or the password overwrite, and the calls
\* of the closing read come after all of them
UpdateStep(c) ==
  IF c.by = "read" THEN 9
  ELSE IF c.fn = "UpdateUser" THEN (IF c.a1 = "profile" THEN 3 ELSE 7)
  ELSE IF c.fn \in DOMAIN StepOfCall THEN StepOfCall[c.fn]
  ELSE 0

StepsIssued == {UpdateStep(calls[i]) : i \in Idx}

\* C1: in every run of resourceUserUpdate the remote calls are issued in the
\* order status fetch, status transition, profile update, role listing and
\* removals, role additions, group changes, password change, recovery
\* question: no call of a later step precedes a call of an earlier step, every
\* call belongs to one of the steps, and the status fetch is issued only when
\* the password changed (the steps of the log never decrease from one call to
\* the next, hence between any two calls)
C1_UpdateCallOrder ==
  op = "update" =>
    \A i \in Idx :
      LET step == UpdateStep(calls[i])
      IN /\ step # 0
         /\ step = 1 => HasChange(d, "password")
         /\ i < Len(calls) => step <= UpdateStep(calls[i + 1])

\* an update that issued the status transition, role removals and additions
\* and a group change, and completed
C1_Witness ==
  /\ op = "update" /\ pc = "returned" /\ diags = "ok"
  /\ {2, 4, 5, 6, 9} \subseteq StepsIssued
  /\ \E i \in Idx : calls[i].fn = "RemoveRoleFromUser"

\* ------------------------------------------------------------ create
\* a call of resourceUserCreate that follows its CreateUser call
FollowUp(c) == c.by = "create" /\ c.fn # "CreateUser"

\* the calls that would undo what a create has done
RollbackCalls ==
  {"DeactivateOrDeleteUser", "RemoveRoleFromUser", "RemoveUserFromGroup"}

\* the closing read has found the user gone
ReadFoundGone == \E i \in Idx : calls[i].by = "read" /\ calls[i].res = "404"

\* C2: in resourceUserCreate, from the moment CreateUser succeeds and through
\* every follow-up call (role, group, status, expire-password) the returned
\* identifier is recorded; a follow-up that fails ends the operation with an
\* error, the identifier still recorded, the remote entity still there and no
\* delete or rollback call issued
C2_IdRecordedBeforeFollowUps ==
  (op = "create" /\ Len(calls) >= 1 /\ calls[1].res = "ok" /\ ~ReadFoundGone) =>
    /\ id = RemoteUserId
    /\ remote.exists
    /\ \A i \in Idx : calls[i].fn \notin RollbackCalls
    /\ \A i \in Idx :
         (FollowUp(calls[i]) /\ calls[i].res # "ok") =>
           /\ i = Len(calls)
           /\ pc = "returned"
           /\ diags \notin {"ok", "running"}

\* a create whose last follow-up failed after earlier follow-ups succeeded
C2_Witness ==
  /\ op = "create" /\ pc = "returned" /\ diags # "ok"
  /\ Len(calls) >= 3
  /\ FollowUp(calls[Len(calls)]) /\ calls[Len(calls)].res = "err"
  /\ id = RemoteUserId /\ remote.exists

\* ------------------------------------------------------ error handling
\* a 404 answer to a role removal of an update
RoleRemoval404(c) == c.fn = "RemoveRoleFromUser" /\ c.res = "404"

\* a 404 answer to the user fetch of the closing read
ReadGetUser404(c) == c.fn = "GetUser" /\ c.by = "read" /\ c.res = "404"

\* the failing call is the last of the log and the operation has returned an
\* error
AbortsAt(i) ==
  /\ i = Len(calls)
  /\ pc = "returned"
  /\ diags \notin {"ok", "running"}

\* C3 as stated: in create, update and delete every call that does not
\* succeed, a 404 on a role removal excepted, is the last call of the operation
\* and the operation returns an error
C3_Original ==
  op \in {"create", "update", "delete"} =>
    \A i \in Idx :
      (calls[i].res # "ok" /\ ~RoleRemoval404(calls[i])) => AbortsAt(i)

\* C3 (amended): in create, update and delete every call that does not
\* succeed, other than a 404 on a role removal and a 404 on the user fetch of
\* the closing read, is the last call of the operation and the operation
\* returns an error; a 404 on the user fetch of the closing read is the last
\* call as well, and the operation returns without an error and with the
\* identifier cleared; no call that undoes an earlier one follows a failure
C3_AbortOnFirstError ==
  op \in {"create", "update", "delete"} =>
    \A i \in Idx :
      /\ (calls[i].res # "ok" /\ ~RoleRemoval404(calls[i])
            /\ ~ReadGetUser404(calls[i])) => AbortsAt(i)
      /\ ReadGetUser404(calls[i]) =>
           /\ i = Len(calls)
           /\ pc = "returned"
           /\ diags = "ok"
           /\ id = NoId

\* an update that went on after a 404 on a role removal and was then ended by
\* a failing call
C3_Witness ==
  /\ op = "update" /\ pc = "returned" /\ diags \notin {"ok", "running"}
  /\ \E i \in Idx : i < Len(calls) /\ RoleRemoval404(calls[i])
  /\ calls[Len(calls)].res = "err"

\* ------------------------------------------------------ update rejections
\* the rejections of resourceUserUpdate
ValidationErrors == {StagedError, ProvisionedError, DeprovisionedError}

\* C4: an update whose desired status is STAGED and whose status changed is
\* rejected with an error and issues no remote call at all, whatever other
\* attributes changed
C4_StagedRejected ==
  (op = "update" /\ d.status = userStatusStaged /\ loc.statusChange) =>
    /\ calls = <<>>
    /\ pc = "returned"
    /\ diags = StagedError

\* an update to STAGED of a user recorded with another status, with other
\* attributes changed as well
C4_Witness ==
  /\ op = "update" /\ d.status = userStatusStaged /\ loc.statusChange
  /\ st.status # userStatusStaged
  /\ {"password", "admin_roles"} \subseteq d.changed
  /\ pc = "returned"

\* the status fetch of an update has answered PROVISIONED
FetchedProvisioned ==
  /\ op = "update"
  /\ Len(calls) >= 1
  /\ calls[1].fn = "GetUser" /\ calls[1].by = "update"
  /\ calls[1].res = "ok" /\ calls[1].a2 = userStatusProvisioned

\* C5: an update in which the password changed and the freshly fetched remote
\* status is PROVISIONED is rejected; the status fetch is the only remote call
\* it makes, so no status, profile, role, group, password or recovery-question
\* call is issued
C5_ProvisionedRejected ==
  /\ FetchedProvisioned =>
       /\ HasChange(d, "password")
       /\ Len(calls) = 1
       /\ pc = "returned"
       /\ diags = ProvisionedError
  /\ (op = "update" /\ \E i \in Idx : calls[i].fn = "GetUser" /\ calls[i].by = "update")
       => calls[1].fn = "GetUser"

\* the rejection of a password change together with a pending status change
\* and another changed attribute
C5_Witness ==
  /\ FetchedProvisioned
  /\ loc.statusChange
  /\ Cardinality(d.changed) = 2
  /\ pc = "returned" /\ diags = ProvisionedError

\* C6: an update whose desired status is DEPROVISIONED and in which a profile
\* attribute changed fails before the profile update: the only calls it issues
\* are the status fetch and the status transition, so no UpdateUser call and
\* no role, group, password or recovery-question call is issued, and it
\* returns an error
C6_DeprovisionedFailsBeforeProfile ==
  (op = "update" /\ d.status = userStatusDeprovisioned /\ hasProfileChange(d)) =>
    /\ \A i \in Idx :
         /\ calls[i].by = "update"
         /\ calls[i].fn \in {"GetUser", "UpdateStatus"}
    /\ pc = "returned" => diags \notin {"ok", "running"}

\* the rejection of a changed plain profile attribute, with the role set
\* changed as well, after the transition to DEPROVISIONED
C6_Witness ==
  /\ op = "update" /\ d.status = userStatusDeprovisioned
  /\ d.changed = {plainProfileKey, "admin_roles"}
  /\ pc = "returned" /\ diags = DeprovisionedError
  /\ Len(calls) = 1 /\ calls[1].fn = "UpdateStatus"

\* C7 as stated: whenever update rejects a request with an error of its own,
\* no mutating remote call has been issued in that update
C7_Original ==
  (op = "update" /\ pc = "returned" /\ diags \in ValidationErrors) =>
    \A i \in Idx : ~Mutating(calls[i])

\* C7 (amended): whenever update rejects a request with an error of its own,
\* the only mutating remote call it can have issued is its own status
\* transition: none for the STAGED and the PROVISIONED rejection, and for the
\* DEPROVISIONED rejection the successful transition to DEPROVISIONED, issued
\* exactly when the status changed
C7_RejectionSideEffects ==
  (op = "update" /\ pc = "returned" /\ diags \in ValidationErrors) =>
    /\ \A i \in Idx :
         Mutating(calls[i]) =>
           /\ diags = DeprovisionedError
           /\ calls[i].fn = "UpdateStatus"
           /\ calls[i].a1 = userStatusDeprovisioned
           /\ calls[i].res = "ok"
    /\ CountCalls(Mutating) <= 1
    /\ diags = DeprovisionedError =>
         (loc.statusChange <=> CountCalls(Mutating) = 1)

\* the DEPROVISIONED rejection after the status transition has been applied
C7_Witness ==
  /\ op = "update" /\ pc = "returned" /\ diags = DeprovisionedError
  /\ loc.statusChange
  /\ \E i \in Idx : calls[i].fn = "UpdateStatus" /\ calls[i].res = "ok"
  /\ remote.status = userStatusDeprovisioned

\* ------------------------------------------------------ password change
\* a completed update in which the password changed, old_password is supplied
\* and no call failed
PasswordChangedWithOld ==
  /\ op = "update" /\ pc = "returned" /\ diags = "ok"
  /\ HasChange(d, "password")
  /\ d.old_password = suppliedOldPassword
  /\ \A i \in Idx : calls[i].res = "ok"

IsChangePassword(c) == c.fn = "ChangePassword"
IsUpdateUser(c) == c.fn = "UpdateUser"
IsCredentialOverwrite(c) == c.fn = "UpdateUser" /\ c.a1 = "credentials"

\* exactly one ChangePassword call, with old_password and the new password
OneChangePassword ==
  /\ CountCalls(IsChangePassword) = 1
  /\ \A i \in Idx :
       IsChangePassword(calls[i]) =>
         /\ calls[i].a1 = suppliedOldPassword
         /\ calls[i].a2 = newPasswordValue

\* C8 as stated: in every update in which the password changed, old_password
\* is supplied and no step fails, exactly one ChangePassword call is issued,
\* with old_password as the old and the new password as the new value, and no
\* UpdateUser call occurs
C8_Original ==
  PasswordChangedWithOld =>
    /\ OneChangePassword
    /\ CountCalls(IsUpdateUser) = 0

\* C8 (amended): in every update in which the password changed, old_password
\* is supplied and no step fails, exactly one ChangePassword call is issued,
\* with old_password as the old and the new password as the new value, and no
\* UpdateUser call overwrites the credential with the bare password; the one
\* UpdateUser call of such an update is the profile update, issued before the
\* ChangePassword call because "password" is one of the profile keys
C8_ChangePasswordOnce ==
  PasswordChangedWithOld =>
    /\ OneChangePassword
    /\ CountCalls(IsCredentialOverwrite) = 0
    /\ CountCalls(IsUpdateUser) = 1
    /\ \A i, j \in Idx :
         (IsUpdateUser(calls[i]) /\ IsChangePassword(calls[j])) =>
           /\ i < j
           /\ calls[i].a1 = "profile"
           /\ calls[i].a2 \in {"none", "hash", "hook"}

\* such an update, completed
C8_Witness ==
  /\ PasswordChangedWithOld
  /\ \E i \in Idx : IsChangePassword(calls[i])
  /\ \E i \in Idx : calls[i].by = "read"

\* ------------------------------------------------------------ delete
IsDelete(c) == c.fn = "DeactivateOrDeleteUser"

\* C9: a delete in which no call fails issues exactly one
\* DeactivateOrDeleteUser call when the recorded status is DEPROVISIONED and
\* exactly two for any other status, and nothing else; a call that fails is
\* the last one and its error is returned, so a failing first call is never
\* followed by a second
C9_DeleteCalls ==
  op = "delete" =>
    /\ \A i \in Idx : IsDelete(calls[i]) /\ calls[i].by = "delete"
    /\ (pc = "returned" /\ diags = "ok") =>
         /\ Len(calls) = IF d.status = userStatusDeprovisioned THEN 1 ELSE 2
         /\ \A i \in Idx : calls[i].res = "ok"
    /\ \A i \in Idx :
         calls[i].res # "ok" =>
           /\ i = Len(calls)
           /\ pc = "returned"
           /\ diags \notin {"ok", "running"}
    /\ Len(calls) <= 2

\* the delete of a user recorded as DEPROVISIONED, completed with one call
C9_Witness ==
  /\ op = "delete" /\ pc = "returned" /\ diags = "ok"
  /\ d.status = userStatusDeprovisioned
  /\ Len(calls) = 1

\* ------------------------------------------------------ create, STAGED
IsCreateUser(c) == c.fn = "CreateUser"
IsRoleOrGroupFollowUp(c) ==
  c.by = "create" /\ c.fn \in {"AssignRoleToUser", "AddUserToGroup"}
IsStatusFollowUp(c) == c.by = "create" /\ c.fn = "UpdateStatus"

\* a create issues one CreateUser call, first, and sends activate=false
\* exactly when the desired status is STAGED
OneCreateCall ==
  Len(calls) >= 1 =>
    /\ IsCreateUser(calls[1])
    /\ CountCalls(IsCreateUser) = 1
    /\ calls[1].a1 = "activate=false" <=> d.status = userStatusStaged

\* the identifier is recorded from the success of CreateUser on, until the
\* closing read finds the user gone
IdRecorded ==
  (Len(calls) >= 1 /\ calls[1].res = "ok" /\ ~ReadFoundGone) => id = RemoteUserId

\* C10 as stated: every create with desired status STAGED issues exactly one
\* create call with activate=false, issues no role, group or status follow-up
\* call, and ends with the identifier recorded; a create with any other
\* desired status never sends activate=false
C10_Original ==
  op = "create" =>
    /\ OneCreateCall
    /\ IdRecorded
    /\ d.status = userStatusStaged =>
         \A i \in Idx :
           ~IsRoleOrGroupFollowUp(calls[i]) /\ ~IsStatusFollowUp(calls[i])

\* C10 (amended): every create with desired status STAGED issues exactly one
\* create call with activate=false and no status follow-up call; its role and
\* group follow-up calls are those of the configured admin_roles and
\* group_memberships, none when neither is configured; the identifier is
\* recorded once the create call has succeeded, until the closing read finds
\* the user gone; a create with any other desired status never sends
\* activate=false
C10_StagedCreate ==
  op = "create" =>
    /\ OneCreateCall
    /\ IdRecorded
    /\ d.status = userStatusStaged =>
         \A i \in Idx :
           /\ ~IsStatusFollowUp(calls[i])
           /\ (calls[i].by = "create" /\ calls[i].fn = "AssignRoleToUser") =>
                calls[i].a1 \in d.admin_roles
           /\ (calls[i].by = "create" /\ calls[i].fn = "AddUserToGroup") =>
                calls[i].a1 \in d.group_memberships

\* a completed STAGED create with a role assigned, the identifier recorded
C10_Witness ==
  /\ op = "create" /\ pc = "returned" /\ diags = "ok"
  /\ d.status = userStatusStaged
  /\ calls[1].a1 = "activate=false"
  /\ \E i \in Idx : IsRoleOrGroupFollowUp(calls[i])
  /\ id = RemoteUserId
  /\ remote.status = userStatusStaged

\* ------------------------------------------------------ role and group deltas
IsRoleCall(c) ==
  c.by = "update" /\ c.fn \in {"ListAssignedRolesForUser", "RemoveRoleFromUser",
                               "AssignRoleToUser"}
IsGroupCall(c) ==
  c.by = "update" /\ c.fn \in {"AddUserToGroup", "RemoveUserFromGroup"}

\* the role types of the remote role list the update has fetched
ListedRoles == {loc.roles[k] : k \in 1..Len(loc.roles)}

\* in the role block and in the group block the deltas are D minus P and
\* P minus D
DeltasComputed ==
  /\ pc = "u_role_remove" =>
       /\ loc.rolesToAdd = d.admin_roles \ loc.oldRoles
       /\ loc.rolesToRemove = loc.oldRoles \ d.admin_roles
  /\ pc = "u_groups_remove" =>
       /\ loc.groupsToAdd = d.group_memberships \ loc.oldGroups
       /\ loc.groupsToRemove = loc.oldGroups \ d.group_memberships

\* an update in which a relation did not change (P = D) issues no call of it
NoChangeNoCall ==
  op = "update" =>
    /\ ~HasChange(d, "admin_roles") => \A i \in Idx : ~IsRoleCall(calls[i])
    /\ ~HasChange(d, "group_memberships") => \A i \in Idx : ~IsGroupCall(calls[i])

\* the role block ends successfully: when the listed remote roles were P, the
\* remote roles are then D
RolesApplied ==
  (pc = "u_role_remove" /\ pc' = After("u_roles") /\ ListedRoles = loc.oldRoles)
    => remote'.roles = d.admin_roles

\* the two halves of the group block end successfully: when the remote
\* memberships were P, they are P and D together after the additions and D
\* after the removals
GroupsApplied ==
  /\ (pc = "u_groups" /\ pc' = "u_groups_remove"
        /\ remote.groups = loc'.oldGroups)
       => remote'.groups = loc'.oldGroups \cup d'.group_memberships
  /\ (pc = "u_groups_remove" /\ pc' = After("u_groups")
        /\ remote.groups = loc.oldGroups \cup d.group_memberships)
       => remote'.groups = d.group_memberships

\* C11: for all prior sets P and desired sets D of roles or of group
\* memberships, update computes additions = D minus P and removals = P minus
\* D; when the remote membership is P before the step and the step succeeds,
\* the remote membership is D after it; and when P = D (the relation did not
\* change) no call of that relation is issued
C11_Deltas ==
  [][DeltasComputed' /\ NoChangeNoCall' /\ RolesApplied /\ GroupsApplied]_vars

\* an update past its role and group blocks, which removed a role, added a
\* role and added a group, with the remote sets as desired
C11_Witness ==
  /\ op = "update" /\ pc = "u_password"
  /\ \E i \in Idx : calls[i].fn = "RemoveRoleFromUser" /\ calls[i].res = "ok"
  /\ \E i \in Idx : calls[i].fn = "AssignRoleToUser" /\ calls[i].res = "ok"
  /\ \E i \in Idx : calls[i].fn = "AddUserToGroup" /\ calls[i].res = "ok"
  /\ remote.roles = d.admin_roles /\ d.admin_roles # {}
  /\ remote.groups = d.group_memberships

\* ------------------------------------------------------ credential sources
\* the number of credential sources the configuration of a create supplies
SourcesSupplied ==
  (IF d.password # "" THEN 1 ELSE 0) + (IF d.password_hash # "" THEN 1 ELSE 0)
    + (IF d.pih # "" THEN 1 ELSE 0)

\* the call carries two credential sources in one request
CarriesTwoSources(c) ==
  \/ c.fn = "CreateUser" /\ c.a2 = "password+hash"
  \/ c.fn = "UpdateUser" /\ c.a2 \notin {"none", "hash", "hook", newPasswordValue}

\* C12: at most one of password, password_hash and password_inline_hook is
\* accepted: a create never runs with two of them supplied, and no create or
\* update call carries two credential sources
C12_OneCredentialSource ==
  /\ (op = "create" /\ pc # "idle") => SourcesSupplied <= 1
  /\ \A i \in Idx : ~CarriesTwoSources(calls[i])

\* ------------------------------------------------------ the identifier
\* the step issues a successful CreateUser call
CreateSucceeds ==
  /\ pc = "c_CreateUser"
  /\ Len(calls') = 1
  /\ calls'[1].fn = "CreateUser" /\ calls'[1].res = "ok"

\* the step issues the user fetch of a read and it answers 404
ReadFindsGone ==
  /\ pc = "r_GetUser"
  /\ Len(calls') = Len(calls) + 1
  /\ ReadGetUser404(calls'[Len(calls')])

\* the identifier becomes non-empty exactly in the step in which the create
\* call succeeds
SetByCreate ==
  /\ (id = NoId /\ id' # NoId) => CreateSucceeds
  /\ CreateSucceeds => id' = RemoteUserId

C14_DeprovisionedOnlyStatus ==
  (op = "update" /\ d.status = userStatusDeprovisioned) =>
    \A i \in Idx :
      (calls[i].by = "update" /\ Mutating(calls[i])) => calls[i].fn = "UpdateStatus"

\* ------------------------------------------------------ retry of an update
\* An update of a recorded user is run, aborts on a remote error, and the same
\* update is run again with every remote call succeeding.  The plan is the
\* update: the desired status, the changed attributes and the prior and
\* desired role and group sets; the remote roles and groups are the prior
\* ones before the first attempt.  st keeps the plan and the attempt.
RemoteStatuses ==
  {statusActive, userStatusStaged, userStatusSuspended, userStatusDeprovisioned,
   userStatusProvisioned, userStatusPasswordExpired, userStatusRecovery}

\* the prior and the desired value of a set attribute: they differ when the
\* attribute is changed, and an unchanged attribute holds every element
SetChanges(changed, all) ==
  IF changed
  THEN {p \in (SUBSET all) \X (SUBSET all) : p[1] # p[2]}
  ELSE {<<all, all>>}

RetryPlans ==
  UNION {UNION {{[status |-> s, changed |-> c,
                  oldRoles |-> r[1], newRoles |-> r[2],
                  oldGroups |-> g[1], newGroups |-> g[2]] :
                   r \in SetChanges("admin_roles" \in c, RoleTypes),
                   g \in SetChanges("group_memberships" \in c, GroupIds)} :
                s \in ConfigStatuses} :
           c \in ChangeSets}

RetryInit ==
  /\ pc = "idle"
  /\ op = "none"
  /\ id = RemoteUserId
  /\ d = NoD
  /\ calls = <<>>
  /\ diags = "none"
  /\ loc = NoLoc
  /\ \E plan \in RetryPlans, s \in RemoteStatuses :
       /\ remote = [exists |-> TRUE, status |-> s,
                    roles |-> plan.oldRoles, groups |-> plan.oldGroups]
       /\ st = [status |-> mapStatus(s), attempt |-> 1, plan |-> plan]

\* in the second attempt every remote call succeeds
Succeeding == st.attempt = 2 => \A i \in 1..Len(calls') : calls'[i].res = "ok"

\* resourceUserUpdate is invoked with the plan
RetryBegin ==
  /\ UpdateBegin
  /\ d'.status = st.plan.status
  /\ d'.changed = st.plan.changed

RetryListRoles ==
  /\ UpdateListRoles
  /\ HasChange(d, "admin_roles") =>
       /\ loc'.oldRoles = st.plan.oldRoles
       /\ d'.admin_roles = st.plan.newRoles
  /\ Succeeding

RetryAddGroups ==
  /\ UpdateAddGroups
  /\ HasChange(d, "group_memberships") =>
       /\ loc'.oldGroups = st.plan.oldGroups
       /\ d'.group_memberships = st.plan.newGroups
  /\ Succeeding

\* the other steps of the update and of its closing read
RetryStep ==
  /\ \/ UpdateCheckProvisioned
     \/ UpdateStatus
     \/ UpdateCheckDeprovisioned
     \/ UpdateProfile
     \/ UpdateRemoveRole
     \/ UpdateAddRoles
     \/ UpdateRemoveGroups
     \/ UpdatePassword
     \/ UpdateRecovery
     \/ ReadGetUser
     \/ ReadRoles
     \/ ReadGroups
  /\ Succeeding

\* the first attempt has aborted on a remote error
FirstAttemptAborted ==
  /\ pc = "returned"
  /\ st.attempt = 1
  /\ diags \notin ({"ok"} \cup ValidationErrors)

\* the same update is due again
RetryFinish ==
  /\ FirstAttemptAborted
  /\ pc' = "idle"
  /\ st' = [st EXCEPT !.attempt = 2]
  /\ op' = "none"
  /\ d' = NoD
  /\ calls' = <<>>
  /\ diags' = "none"
  /\ loc' = NoLoc
  /\ UNCHANGED <<id, remote>>

RetryNext ==
  \/ RetryBegin
  \/ RetryListRoles
  \/ RetryAddGroups
  \/ RetryStep
  \/ RetryFinish

SpecRetry == RetryInit /\ [][RetryNext]_vars

\* the remote entity is as the plan desires: the roles and the groups are the
\* desired sets, the status is the desired one or one the provider takes for
\* it, and the profile update was sent if one was due
RemoteAsDesired ==
  /\ remote.roles = st.plan.newRoles
  /\ remote.groups = st.plan.newGroups
  /\ ~HasChangeStatus(mapStatus(remote.status), st.plan.status)
  /\ NeedsProfileUpdate(d) =>
       \E i \in Idx : calls[i].fn = "UpdateUser" /\ calls[i].a1 = "profile"
                        /\ calls[i].res = "ok"

\* the second attempt has returned
RetryReturned == pc = "returned" /\ op = "update" /\ st.attempt = 2

StatusRecorded ==
  /\ pc = "r_roles"
  /\ calls[Len(calls)].fn = "GetUser" /\ calls[Len(calls)].res = "ok"

\* C16: mapStatus returns ACTIVE for PASSWORD_EXPIRED and for RECOVERY and
\* its argument for every other status, and this is the status the read
\* records for the fetched user
C16_MapStatus ==
  /\ \A s \in RemoteStatuses :
       mapStatus(s) = IF s \in {userStatusPasswordExpired, userStatusRecovery}
                      THEN statusActive ELSE s
  /\ StatusRecorded =>
       /\ calls[Len(calls)].a2 = remote.status
       /\ st.status = IF remote.status \in {userStatusPasswordExpired, userStatusRecovery}
                      THEN statusActive ELSE remote.status

\* the read has recorded ACTIVE for a user fetched in RECOVERY
C16_Witness ==
  /\ StatusRecorded
  /\ calls[Len(calls)].a2 = userStatusRecovery
  /\ st.status = statusActive

\* ------------------------------------------------------------ app_filter.go
\* The application search: getAppFilters builds the filters from the
\* configuration d = [id, label, label_prefix, active_only], and listApps
\* lists the applications page by page.  remote.pages gives the number of
\* applications on every result page; loc holds the filters, the page resp
\* stands at and the applications gathered so far.
AppIds == {"", "0oa1"}
AppLabels == {"", "app"}
AppLabelPrefixes == {"", "ap"}

ActiveClause == "status eq \"ACTIVE\""
AppFilterError ==
  "you must provide either a 'label_prefix', 'id', or 'label' for application search"

\* a getQ that prefers the label prefix
getQPrefixFirst(f) == IF f.LabelPrefix # "" THEN f.LabelPrefix ELSE f.Label

\* lines 21-26: the q query parameter
getQ(f) == IF f.Label # "" THEN f.Label ELSE f.LabelPrefix

\* lines 57-69: the filters and the error getAppFilters returns
getAppFilters(dd) ==
  LET filters == [ID |-> dd.id, Label |-> dd.label, LabelPrefix |-> dd.label_prefix,
                  Status |-> IF dd.active_only THEN ActiveClause ELSE ""]
  IN IF dd.id = "" /\ dd.label = "" /\ dd.label_prefix = ""
     THEN [filters |-> "nil", err |-> AppFilterError]
     ELSE [filters |-> filters, err |-> "nil"]

\* the chains of result pages, as the number of applications on each page
PageChains == UNION {[1..n -> 0..MaxPageLen] : n \in 1..MaxPages}

\* the applications on page i of the chain
Page(chain, i) == [k \in 1..chain[i] |-> <<i, k>>]

NoAppLoc == [filters |-> "nil", resp |-> 0, resultingApps |-> <<>>]

AppsInit ==
  /\ pc = "idle"
  /\ op = "none"
  /\ id = NoId
  /\ st = NoState
  /\ d \in [id : AppIds, label : AppLabels, label_prefix : AppLabelPrefixes,
            active_only : BOOLEAN]
  /\ remote \in [pages : PageChains]
  /\ calls = <<>>
  /\ diags = "none"
  /\ loc = NoAppLoc

\* lines 57-69: without an id, a label and a label prefix the search is
\* refused; otherwise the filters are handed to listApps
GetAppFilters ==
  /\ pc = "idle"
  /\ LET r == getAppFilters(d)
     IN IF r.err # "nil"
        THEN /\ Return(r.err)
             /\ UNCHANGED loc
        ELSE /\ loc' = [loc EXCEPT !.filters = r.filters]
             /\ pc' = "listApps"
             /\ diags' = "running"
  /\ op' = "apps"
  /\ UNCHANGED <<id, st, d, remote, calls>>

\* lines 32-44: the first page is listed with the status clause as filter
\* and getQ as search term
ListApps ==
  /\ pc = "listApps"
  /\ \E res \in {"ok", "err"} :
       /\ calls' = Append(calls,
            Call("ListApplications", "listApps", loc.filters.Status, getQ(loc.filters), res))
       /\ IF res # "ok"
          THEN /\ Return("err")
               /\ loc' = [loc EXCEPT !.resultingApps = <<>>]
          ELSE /\ loc' = [loc EXCEPT !.resp = 1, !.resultingApps = Page(remote.pages, 1)]
               /\ pc' = "hasNextPage"
               /\ UNCHANGED diags
  /\ UNCHANGED <<op, id, st, d, remote>>

\* an append that keeps the page fetched last only
appendLastOnly(resultingApps, nextApps) == nextApps

\* line 52: resultingApps = append(resultingApps, nextApps...)
append(resultingApps, nextApps) == resultingApps \o nextApps

\* lines 45-54: while there is a next page it is fetched and appended; an
\* error returns no applications
ListAppsNext ==
  /\ pc = "hasNextPage"
  /\ IF loc.resp < Len(remote.pages)
     THEN \E res \in {"ok", "err"} :
            /\ calls' = Append(calls, Call("Next", "listApps", loc.resp + 1, "", res))
            /\ IF res # "ok"
               THEN /\ Return("err")
                    /\ loc' = [loc EXCEPT !.resultingApps = <<>>]
               ELSE /\ loc' = [loc EXCEPT !.resp = @ + 1,
                                 !.resultingApps =
                                    append(@, Page(remote.pages, loc.resp + 1))]
                    /\ UNCHANGED <<pc, diags>>
     ELSE /\ Return("ok")
          /\ UNCHANGED <<calls, loc>>
  /\ UNCHANGED <<op, id, st, d, remote>>

AppsNext ==
  \/ GetAppFilters
  \/ ListApps
  \/ ListAppsNext

SpecApps == AppsInit /\ [][AppsNext]_vars

\* listApps runs on: no step of it waits for anything but its own call
SpecAppsFair == SpecApps /\ WF_vars(AppsNext)

\* getAppFilters has run
FiltersBuilt == op = "apps" /\ pc # "idle"

\* C17: getAppFilters returns its error exactly when id, label and
\* label_prefix are all empty; otherwise the filters' status clause is the
\* equality on ACTIVE exactly when active_only is set, and the search term is
\* the label when there is one and the label prefix otherwise
C17_AppFilters ==
  FiltersBuilt =>
    /\ (diags = AppFilterError) <=> (d.id = "" /\ d.label = "" /\ d.label_prefix = "")
    /\ diags # AppFilterError =>
         /\ loc.filters.Status = ActiveClause <=> d.active_only
         /\ ~d.active_only => loc.filters.Status = ""
         /\ getQ(loc.filters) = IF d.label # "" THEN d.label ELSE d.label_prefix
         /\ \A i \in Idx : calls[i].fn = "ListApplications" =>
              /\ calls[i].a1 = loc.filters.Status
              /\ calls[i].a2 = IF d.label # "" THEN d.label ELSE d.label_prefix

\* a search with a label and a label prefix among the active applications
\* has been sent
C17_Witness ==
  /\ FiltersBuilt
  /\ d.label # "" /\ d.label_prefix # "" /\ d.active_only
  /\ \E i \in Idx : /\ calls[i].fn = "ListApplications"
                    /\ calls[i].a1 = ActiveClause
                    /\ calls[i].a2 = d.label

\* ------------------------------------------------- the follow-ups of create
\* the place of a call of create in the order of lines 414-457
CreateRank ==
  [CreateUser |-> 0, AssignRoleToUser |-> 1, AddUserToGroup |-> 2,
   UpdateStatus |-> 3, ExpirePassword |-> 4]

IsCreateCall(c) == c.by = "create"

\* create has got past its status step, and past its expiry step
PastExpireStep ==
  \/ pc \in {"r_GetUser", "r_roles", "r_groups"}
  \/ \E i \in Idx : calls[i].by = "read"

PastStatusStep ==
  \/ pc = "c_expire"
  \/ \E i \in Idx : calls[i].fn = "ExpirePassword"
  \/ PastExpireStep

\* C18: the calls of create follow the order create call, role assignment,
\* group assignment, status transition, password expiry; the status
\* transition is issued only for the desired status SUSPENDED or
\* DEPROVISIONED and the password expiry only with expire_password_on_create,
\* and each is issued in that case once create gets to its step
C18_CreateFollowUps ==
  op = "create" =>
    /\ \A i \in Idx : IsCreateCall(calls[i]) =>
         /\ calls[i].fn \in DOMAIN CreateRank
         /\ (i = 1) <=> (calls[i].fn = "CreateUser")
         /\ i > 1 => /\ IsCreateCall(calls[i - 1])
                     /\ calls[1].res = "ok"
                     /\ CreateRank[calls[i - 1].fn] <= CreateRank[calls[i].fn]
         /\ calls[i].fn = "UpdateStatus" =>
              d.status \in {userStatusSuspended, userStatusDeprovisioned}
         /\ calls[i].fn = "ExpirePassword" => d.expire
    /\ (PastStatusStep /\ d.status \in {userStatusSuspended, userStatusDeprovisioned}) =>
         \E i \in Idx : IsCreateCall(calls[i]) /\ calls[i].fn = "UpdateStatus"
    /\ (PastExpireStep /\ d.expire) =>
         \E i \in Idx : IsCreateCall(calls[i]) /\ calls[i].fn = "ExpirePassword"

\* a create that made every follow-up: a role, a group, DEPROVISIONED and the
\* password expiry
C18_Witness ==
  /\ op = "create" /\ pc = "returned" /\ diags = "ok"
  /\ d.status = userStatusDeprovisioned /\ d.expire
  /\ \E i, j, k, l \in Idx :
       /\ i < j /\ j < k /\ k < l
       /\ calls[i].fn = "AssignRoleToUser" /\ calls[j].fn = "AddUserToGroup"
       /\ calls[k].fn = "UpdateStatus" /\ calls[l].fn = "ExpirePassword"
       /\ \A n \in {i, j, k, l} : IsCreateCall(calls[n]) /\ calls[n].res = "ok"

\* ------------------------------------------------ the role step of update
IsRoleRemoval(c) == c.by = "update" /\ c.fn = "RemoveRoleFromUser"
IsRoleAddition(c) == c.by = "update" /\ c.fn = "AssignRoleToUser"

\* the entries of the listed remote roles the loop has gone through whose
\* type is in prior minus desired
DueForRemoval ==
  {k \in 1..Len(loc.roles) :
     k < loc.i /\ loc.roles[k] \in (loc.oldRoles \ d.admin_roles)}

\* C19: in the role step of update the removal calls are those for the
\* entries of the freshly listed remote roles whose type is in prior minus
\* desired, one call per entry with the identifier of the entry, so that a
\* type that is not listed gets no call; and every removal call comes before
\* every addition call
C19_RoleRemovals ==
  /\ (op = "update" /\ pc = "u_role_remove") =>
       /\ \A i \in Idx : IsRoleRemoval(calls[i]) =>
            \E k \in DueForRemoval : calls[i].a1 = RoleId(loc.roles[k])
       /\ \A k \in DueForRemoval :
            CountCalls(LAMBDA c : IsRoleRemoval(c) /\ c.a1 = RoleId(loc.roles[k])) = 1
       /\ \A i \in Idx : ~IsRoleAddition(calls[i])
  /\ op = "update" =>
       \A j \in Idx : IsRoleAddition(calls[j]) =>
         \A i \in Idx : IsRoleRemoval(calls[i]) => i < j

\* the loop is through: one listed role was removed, and a type in prior
\* minus desired that is not listed got no call
C19_Witness ==
  /\ op = "update" /\ pc = "u_role_remove" /\ loc.i > Len(loc.roles)
  /\ \E i \in Idx : IsRoleRemoval(calls[i])
  /\ \E t \in (loc.oldRoles \ d.admin_roles) :
       /\ t \notin ListedRoles
       /\ \A i \in Idx : IsRoleRemoval(calls[i]) => calls[i].a1 # RoleId(t)

\* ------------------------------------------- a 404 answer to a role removal
\* the last call of the log
LastCall == calls[Len(calls)]

RemovalError == "failed to remove user's role"

\* C20: a role removal of update that is answered 404 does not end the
\* update: the loop is past the listed role and goes on, the additions are
\* still due, and an update that returns without error has made the calls of
\* its group step; a removal answered by any other error is the last call of
\* the update, which returns the removal error
C20_Removal404 ==
  op = "update" =>
    /\ \A i \in Idx : (IsRoleRemoval(calls[i]) /\ calls[i].res = "404") =>
         /\ i = Len(calls) => pc # "returned" /\ diags = "running"
         /\ (i = Len(calls) /\ pc = "u_role_remove") =>
              /\ \E k \in 1..Len(loc.roles) :
                   k < loc.i /\ calls[i].a1 = RoleId(loc.roles[k])
              /\ loc.rolesToAdd = d.admin_roles \ loc.oldRoles
              /\ loc.rolesToRemove = loc.oldRoles \ d.admin_roles
         /\ (pc = "returned" /\ diags = "ok" /\ HasChange(d, "group_memberships")) =>
              \E j \in Idx : j > i /\ IsGroupCall(calls[j])
    /\ \A i \in Idx : (IsRoleRemoval(calls[i]) /\ calls[i].res = "err") =>
         /\ i = Len(calls)
         /\ pc = "returned"
         /\ diags = RemovalError
    /\ diags = RemovalError =>
         Len(calls) > 0 /\ IsRoleRemoval(LastCall) /\ LastCall.res = "err"

\* an update whose role removal was answered 404 has gone on to add a role
\* and to change the groups, and has returned without error
C20_Witness ==
  /\ op = "update" /\ pc = "returned" /\ diags = "ok"
  /\ \E i, j, k \in Idx :
       /\ i < j /\ j < k
       /\ IsRoleRemoval(calls[i]) /\ calls[i].res = "404"
       /\ IsRoleAddition(calls[j]) /\ calls[j].res = "ok"
       /\ IsGroupCall(calls[k]) /\ calls[k].res = "ok"

\* ------------------------------------------------ the profile update call
IsProfileUpdate(c) == c.by = "update" /\ c.fn = "UpdateUser" /\ c.a1 = "profile"

\* the update has got past its profile step
PastProfileStep ==
  /\ op = "update"
  /\ \/ pc \in {"u_roles", "u_role_remove", "u_groups", "u_groups_remove",
                "u_password", "u_recovery", "r_GetUser", "r_roles", "r_groups"}
     \/ \E i \in Idx : UpdateStep(calls[i]) > 3

\* the credential payload the flags call for: the hook when it changed to a
\* value, otherwise the hash when it changed, otherwise none
PayloadDue ==
  IF HasChange(d, "password_inline_hook") /\ d.pih = hookDefault THEN "hook"
  ELSE IF HasChange(d, "password_hash") THEN "hash"
  ELSE "none"

\* the profile update is issued exactly when Due, once, with the full profile
\* and a payload of the hash or the hook, never both
ProfileUpdateWhen(Due) ==
  op = "update" =>
    /\ \A i \in Idx : IsProfileUpdate(calls[i]) =>
         /\ Due
         /\ calls[i].a2 \in {"none", "hash", "hook"}
         /\ calls[i].a2 = PayloadDue
    /\ (PastProfileStep /\ Due) => CountCalls(IsProfileUpdate) = 1

\* C21 as stated: the profile update is issued exactly when a profile
\* attribute, the password hash or the credential hook changed
C21_Original ==
  ProfileUpdateWhen(\/ HasChange(d, plainProfileKey)
                    \/ HasChange(d, "password_hash")
                    \/ HasChange(d, "password_inline_hook"))

\* C21 (amended): the profile update of an update is issued, once, exactly
\* when one of the profile keys (a profile attribute, the password, the
\* recovery question or the recovery answer), the password hash or the
\* credential hook changed and the update got to the step; it carries the
\* full profile, and its credential payload is the hook when the hook changed
\* to a value, otherwise the hash when the hash changed, otherwise none:
\* never both
C21_ProfileUpdate ==
  ProfileUpdateWhen(\/ HasChange(d, plainProfileKey)
                    \/ HasChange(d, "password")
                    \/ HasChange(d, "recovery_question")
                    \/ HasChange(d, "recovery_answer")
                    \/ HasChange(d, "password_hash")
                    \/ HasChange(d, "password_inline_hook"))

\* the hash and the hook both changed, and the profile update was sent with
\* the hook alone
C21_Witness ==
  /\ PastProfileStep
  /\ HasChange(d, "password_hash") /\ HasChange(d, "password_inline_hook")
  /\ \E i \in Idx : IsProfileUpdate(calls[i]) /\ calls[i].a2 = "hook"
                      /\ calls[i].res = "ok"

\* -------------------------------------------- the recovery question call
IsRecoveryCall(c) == c.by = "update" /\ c.fn = "ChangeRecoveryQuestion"

RecoveryChanged ==
  HasChange(d, "recovery_question") \/ HasChange(d, "recovery_answer")

\* the update has got past its recovery step: it is in its closing read
PastRecoveryStep ==
  /\ op = "update"
  /\ \/ pc \in {"r_GetUser", "r_roles", "r_groups"}
     \/ \E i \in Idx : calls[i].by = "read"

\* C22: the recovery question call of an update is issued only when the
\* recovery question or the recovery answer changed, and then once when the
\* update gets to the step; it carries the question and the answer, both,
\* and the current password, and no mutating call follows it
C22_RecoveryQuestion ==
  op = "update" =>
    /\ \A i \in Idx : IsRecoveryCall(calls[i]) =>
         /\ RecoveryChanged
         /\ calls[i].a1 = questionValue \o "/" \o answerValue
         /\ calls[i].a2 = d.password
         /\ \A j \in Idx : (j # i /\ Mutating(calls[j])) =>
              j < i /\ ~IsRecoveryCall(calls[j])
    /\ (PastRecoveryStep /\ RecoveryChanged) => CountCalls(IsRecoveryCall) = 1

\* only the answer changed, together with the password: the call went out
\* after the password change with the question, the answer and the new
\* password
C22_Witness ==
  /\ PastRecoveryStep
  /\ HasChange(d, "recovery_answer") /\ ~HasChange(d, "recovery_question")
  /\ HasChange(d, "password")
  /\ \E i, j \in Idx :
       /\ j < i
       /\ IsRecoveryCall(calls[i]) /\ calls[i].res = "ok"
       /\ calls[i].a2 = newPasswordValue
       /\ calls[j].fn \in {"ChangePassword", "UpdateUser"} /\ calls[j].a1 # "profile"

\* ------------------------------------------------------ listApps pagination
\* the applications of the first n pages of the chain, page after page
RECURSIVE PagesUpTo(_, _)
PagesUpTo(chain, n) ==
  IF n = 0 THEN <<>>
  ELSE PagesUpTo(chain, n - 1) \o [k \in 1..chain[n] |-> <<n, k>>]

IsPageFetch(c) == c.by = "listApps" /\ c.fn \in {"ListApplications", "Next"}

ListAppsReturned == op = "apps" /\ pc = "returned" /\ diags # AppFilterError

\* what listApps returns: with every fetch answered, the applications of all
\* pages in the order of the chain, after one fetch per page in that order;
\* with a fetch that failed, the error and no application, the failed fetch
\* being the last one
ListAppsResult ==
  /\ ListAppsReturned =>
       IF diags = "ok"
       THEN /\ loc.resultingApps = PagesUpTo(remote.pages, Len(remote.pages))
            /\ Len(calls) = Len(remote.pages)
            /\ \A i \in Idx :
                 /\ calls[i].res = "ok"
                 /\ calls[i].fn = IF i = 1 THEN "ListApplications" ELSE "Next"
                 /\ i > 1 => calls[i].a1 = i
       ELSE /\ loc.resultingApps = <<>>
            /\ Len(calls) >= 1 /\ calls[Len(calls)].res = "err"
  /\ op = "apps" =>
       \A i \in Idx : (IsPageFetch(calls[i]) /\ calls[i].res # "ok") =>
         /\ i = Len(calls)
         /\ pc = "returned" /\ diags = "err"

\* C23: for every chain of result pages listApps comes to its return, and it
\* returns the concatenation of all pages in the order they were fetched,
\* one fetch per page until no page is left; when the first fetch or a later
\* one fails it returns the error and no application
C23_ListAppsPagination ==
  /\ []ListAppsResult
  /\ <>(pc = "returned")

\* listApps has returned the applications of a chain of several pages, an
\* empty first page among them
C23_Witness ==
  /\ ListAppsReturned /\ diags = "ok"
  /\ Len(remote.pages) = MaxPages
  /\ remote.pages[1] = 0 /\ remote.pages[MaxPages] = MaxPageLen
  /\ Len(loc.resultingApps) >= MaxPageLen
  /\ calls[Len(calls)].fn = "Next"

\* ------------------------------------------------- a read of a user gone
IsReadGetUser(c) == c.by = "read" /\ c.fn = "GetUser"
IsListing(c) ==
  c.by = "read" /\ c.fn \in {"ListAssignedRolesForUser", "ListUserGroups"}

GetUserError == "failed to get user"

\* C24: when the GetUser call of a read is answered 404 the read returns
\* without error, the identifier cleared, and lists neither roles nor
\* groups; when it is answered by another error the read returns that
\* failure and the identifier is the one recorded before; and only a read
\* whose GetUser call was answered with the user lists roles or groups
C24_ReadNotFound ==
  /\ \A i \in Idx : IsReadGetUser(calls[i]) =>
       /\ calls[i].res = "404" =>
            /\ pc = "returned" /\ diags = "ok"
            /\ id = NoId
            /\ \A j \in Idx : ~IsListing(calls[j])
       /\ calls[i].res = "err" =>
            /\ pc = "returned" /\ diags = GetUserError
            /\ id = RemoteUserId
            /\ \A j \in Idx : ~IsListing(calls[j])
       /\ calls[i].res # "ok" => i = Len(calls)
  /\ \A j \in Idx : IsListing(calls[j]) =>
       \E i \in Idx : i < j /\ IsReadGetUser(calls[i]) /\ calls[i].res = "ok"
  /\ (op = "read" /\ diags = GetUserError) =>
       Len(calls) = 1 /\ IsReadGetUser(calls[1]) /\ calls[1].res = "err"

\* a refresh of a recorded user whose GetUser call was answered 404
C24_Witness ==
  /\ op = "read" /\ pc = "returned" /\ diags = "ok"
  /\ Len(calls) = 1 /\ IsReadGetUser(calls[1]) /\ calls[1].res = "404"
  /\ id = NoId

\* ------------------------------------- one handler run on a recorded user
\* A recorded user: the identifier is set, the remote user is in any of its
\* statuses with any roles and groups, or is gone, and the recorded status is
\* the one a read has taken from it.
RecordedUsers ==
  [exists : {TRUE}, status : RemoteStatuses,
   roles : SUBSET RoleTypes, groups : SUBSET GroupIds] \cup {NoRemote}

RecordedInit ==
  /\ pc = "idle"
  /\ op = "none"
  /\ id = RemoteUserId
  /\ d = NoD
  /\ calls = <<>>
  /\ diags = "none"
  /\ loc = NoLoc
  /\ remote \in RecordedUsers
  /\ st = [status |-> IF remote.exists THEN mapStatus(remote.status)
                      ELSE statusActive]

\* resourceUserUpdate, with its closing read, run once
UpdateNext ==
  \/ UpdateBegin
  \/ UpdateCheckProvisioned
  \/ UpdateStatus
  \/ UpdateCheckDeprovisioned
  \/ UpdateProfile
  \/ UpdateListRoles
  \/ UpdateRemoveRole
  \/ UpdateAddRoles
  \/ UpdateAddGroups
  \/ UpdateRemoveGroups
  \/ UpdatePassword
  \/ UpdateRecovery
  \/ ReadGetUser
  \/ ReadRoles
  \/ ReadGroups

SpecUpdate == RecordedInit /\ [][UpdateNext]_vars

\* resourceUserRead run once
ReadNext ==
  \/ ReadBegin
  \/ ReadGetUser
  \/ ReadRoles
  \/ ReadGroups

SpecRead == RecordedInit /\ [][ReadNext]_vars

====
